---- MODULE Spec2Model ----
(***************************************************************************)
(* Model of limitador-server/src/envoy_rls/server.rs: the Envoy rate-limit *)
(* service adapter MyRateLimiter::should_rate_limit in front of the        *)
(* limitador decision engine (Limiter::Blocking / Limiter::Async).         *)
(*                                                                         *)
(* The handler is translated statement by statement from server.rs.  The   *)
(* decision engine (limitador::RateLimiter / AsyncRateLimiter) is not part *)
(* of server.rs; its check_rate_limited_and_update is modelled from the    *)
(* design document (one atomic check-and-record operation that may fail    *)
(* with a storage error) and from the limits the unit tests of server.rs   *)
(* configure (namespace, max_value, conditions, variables).  All calls of  *)
(* one behaviour fall inside one limit window (the tests use 60 seconds).  *)
(***************************************************************************)
EXTENDS Integers, Sequences, FiniteSets, TLC

\* ------------------------------------------------------------------ bounds

\* Number of inbound calls the server endpoint handles concurrently.
NumCalls == 2

\* Most descriptors in one request and most entries summed over them
\* (requests of the single-call specification SpecWide).
MaxDescriptors == 2

MaxEntries == 3

\* How far around 0, 2^15 and 2^16 - 1 the limbs of the sampled 32-bit
\* hits_addend values reach (specification SpecHits).
LimbSpread == 2

Calls == 1..NumCalls

\* ------------------------------------------------------------ request data

TestNamespace == "test_namespace"

OtherNamespace == "other_namespace"

Entry(k, v) == [key |-> k, value |-> v]

\* The entries requests are built from: the attributes of the unit tests
\* (x, y, z) with two values for x so that a key can be overwritten.
Entries == {Entry("x", "1"), Entry("x", "2"), Entry("y", "2"), Entry("z", "1")}

RECURSIVE SeqsOfLen(_, _)
SeqsOfLen(S, n) ==
    IF n = 0 THEN {<<>>}
    ELSE {<<e>> \o s : e \in S, s \in SeqsOfLen(S, n - 1)}

SeqsUpTo(S, n) == UNION {SeqsOfLen(S, k) : k \in 0..n}

RateLimitDescriptor(es) == [entries |-> es]

\* Descriptor lists with exactly k descriptors and at most n entries in all.
RECURSIVE DescriptorLists(_, _)
DescriptorLists(k, n) ==
    IF k = 0 THEN {<<>>}
    ELSE UNION {{<<RateLimitDescriptor(d)>> \o rest : rest \in DescriptorLists(k - 1, n - Len(d))}
                : d \in SeqsUpTo(Entries, n)}

AllDescriptorLists == UNION {DescriptorLists(k, MaxEntries) : k \in 0..MaxDescriptors}

\* The descriptor lists of the concurrent specification, from
\* test_takes_into_account_all_the_descriptors: x and z in one descriptor and
\* y in a second one, and the first of the two descriptors alone.
SplitDescriptors ==
    <<RateLimitDescriptor(<<Entry("x", "1"), Entry("z", "1")>>),
      RateLimitDescriptor(<<Entry("y", "2")>>)>>

FirstDescriptorOnly ==
    <<RateLimitDescriptor(<<Entry("x", "1"), Entry("z", "1")>>)>>

RateLimitRequest(d, ds, h) == [domain |-> d, descriptors |-> ds, hits_addend |-> h]

\* Requests of the concurrent specification Spec.
Requests ==
    {RateLimitRequest(d, ds, h) :
        d \in {"", TestNamespace},
        ds \in {FirstDescriptorOnly, SplitDescriptors},
        h \in {0, 1, 2}}

\* Requests of the specification of progress FairSpec.
LiveRequests == {r \in Requests : r.hits_addend = 1}

\* Requests of the single-call specification SpecWide.
WideRequests ==
    {RateLimitRequest(d, ds, h) :
        d \in {"", TestNamespace},
        ds \in AllDescriptorLists,
        h \in {0, 1, 2, 6}}

\* ------------------------------------------------------- engine (limits)

Limit(ns, max, conds, vars) ==
    [namespace |-> ns, max_value |-> max, conditions |-> conds, variables |-> vars]

Cond(k, v) == <<k, v>>

\* Limit::new(namespace, max, 60, vec!["x == 1"], vec!["z"])
SingleLimit(max) == Limit(TestNamespace, max, {Cond("x", "1")}, {"z"})

\* The two limits of test_takes_into_account_all_the_descriptors.
PermissiveLimit == Limit(TestNamespace, 10, {Cond("x", "1")}, {"z"})

CombinedLimit == Limit(TestNamespace, 0, {Cond("x", "1"), Cond("y", "2")}, {"z"})

\* The engine configurations a behaviour starts from.
LimitConfigs ==
    { {},
      {SingleLimit(1)},
      {SingleLimit(2)},
      {PermissiveLimit, CombinedLimit},
      {Limit(OtherNamespace, 0, {}, {})} }

\* ------------------------------------------------------------------ state

VARIABLES
    limiter,              \* which variant of Limiter the handler holds
    limits,               \* the limits configured in the engine
    counters,             \* engine storage: counter -> hits recorded
    pc,                   \* position of each call in should_rate_limit
    req,                  \* request.into_inner() of each call
    namespace,            \* the local namespace of each call
    values,               \* the local HashMap values of each call
    hits_addend,          \* the local hits_addend of each call
    is_rate_limited_res,  \* the engine's Result<bool, _> of each call
    result,               \* what should_rate_limit returned to each call
    engine_log,           \* history: the engine invocations, in order
    server,               \* the server endpoint of run_envoy_rls_server
    serve_res,            \* what run_envoy_rls_server returned to its caller
    binds,                \* history: the bind attempts of the endpoint
    u32_hits,             \* a hits_addend field as a 32-bit unsigned value
    i64_hits              \* the 64-bit signed value passed to the engine for it

vars == <<limiter, limits, counters, pc, req, namespace, values, hits_addend,
          is_rate_limited_res, result, engine_log, server, serve_res, binds,
          u32_hits, i64_hits>>

\* The state of the endpoint, and the state of the bit-level hit count.
endpoint == <<server, serve_res, binds>>

widening == <<u32_hits, i64_hits>>

\* The state of the handler and of the engine.
handling == <<limiter, limits, counters, pc, req, namespace, values, hits_addend,
              is_rate_limited_res, result, engine_log>>

None == "None"

EmptyMap == [k \in {} |-> ""]

NoRequest == RateLimitRequest("", <<>>, 0)

\* A call that has not returned yet.
NoResult == [tag |-> "None"]

\* No value passed to the engine yet.
NoI64 == <<>>

\* ------------------------------------------------- handler: pure functions

\* An insert that keeps the value a key already has (entry().or_insert()).
InsertKeepFirst(m, k, v) ==
    [kk \in (DOMAIN m) \cup {k} |-> IF kk \in DOMAIN m THEN m[kk] ELSE v]

\* HashMap::insert: the key is bound to the new value, replacing any old one.
Insert(m, k, v) == [kk \in (DOMAIN m) \cup {k} |-> IF kk = k THEN v ELSE m[kk]]

RECURSIVE InsertEntries(_, _)
InsertEntries(m, es) ==
    IF es = <<>> THEN m
    ELSE InsertEntries(Insert(m, Head(es).key, Head(es).value), Tail(es))

\* for descriptor in &req.descriptors { for entry in &descriptor.entries { .. } }
RECURSIVE InsertDescriptors(_, _)
InsertDescriptors(m, ds) ==
    IF ds = <<>> THEN m
    ELSE InsertDescriptors(InsertEntries(m, Head(ds).entries), Tail(ds))

\* Only the first descriptor of the request is read.
AggregateFirstDescriptor(ds) ==
    IF ds = <<>> THEN EmptyMap ELSE InsertEntries(EmptyMap, Head(ds).entries)

Aggregate(ds) == InsertDescriptors(EmptyMap, ds)

\* The guard inverted.
IsEmptyInverted(s) == s # ""

\* A guard that never finds the domain empty.
IsEmptyNever(s) == FALSE

\* namespace.is_empty()
IsEmpty(s) == s = ""

\* The field passed on as it is, 0 included.
NormalizeHitsIdentity(h) == h

\* Every request counted as one hit.
NormalizeHitsAlwaysOne(h) == 1

\* let hits_addend = if req.hits_addend == 0 { 1 } else { req.hits_addend };
NormalizeHits(h) == IF h = 0 THEN 1 ELSE h

\* A u32 is written <<high, low>> and an i64 <<l3, l2, l1, l0>> (two's
\* complement), in limbs of 16 bits, most significant first.
LimbBase == 2 ^ 16

SignLimb == 2 ^ 15

Limbs == 0..(LimbBase - 1)

\* The limbs next to the boundaries of a limb, and the u32 values made of
\* them: 0, 1, 2^31 - 1, 2^31 and 2^32 - 1 are among them.
BoundaryLimbs ==
    (0..LimbSpread)
        \cup ((SignLimb - LimbSpread)..(SignLimb + LimbSpread))
        \cup ((LimbBase - 1 - LimbSpread)..(LimbBase - 1))

U32Samples == BoundaryLimbs \X BoundaryLimbs

\* if req.hits_addend == 0 { 1 } else { req.hits_addend }, on a u32.
NormalizeHitsU32(u) == IF u = <<0, 0>> THEN <<0, 1>> ELSE u

\* A widening through i32 (hits_addend as i32 as i64): the sign bit of the
\* 32-bit value is copied into the upper limbs.
I64FromU32SignExtended(u) ==
    IF u[1] >= SignLimb THEN <<LimbBase - 1, LimbBase - 1, u[1], u[2]>>
    ELSE <<0, 0, u[1], u[2]>>

\* i64::from(u32): the upper 32 bits are zero, the lower 32 bits are the u32.
I64FromU32(u) == <<0, 0, u[1], u[2]>>

\* The u32 of a number below 2^31 and the number of an i64 in that range.
U32OfInt(h) == <<h \div LimbBase, h % LimbBase>>

IntOfI64(x) == x[3] * LimbBase + x[4]

\* i64::from(hits_addend): a u32 widened to i64 keeps its value.
I64From(h) == IntOfI64(I64FromU32(U32OfInt(h)))

\* Code::X.into(): the protocol's numbering of the response codes.
CodeInto(code) ==
    CASE code = "Unknown" -> 0
      [] code = "Ok" -> 1
      [] code = "OverLimit" -> 2

\* A reply that also fills in a per-descriptor status.
RateLimitResponseWithStatus(code) ==
    [overall_code |-> CodeInto(code),
     statuses |-> <<CodeInto(code)>>,
     request_headers_to_add |-> <<>>,
     response_headers_to_add |-> <<>>]

RateLimitResponse(code) ==
    [overall_code |-> CodeInto(code),
     statuses |-> <<>>,
     request_headers_to_add |-> <<>>,
     response_headers_to_add |-> <<>>]

OkResponse(code) == [tag |-> "Ok", response |-> RateLimitResponse(code)]

ErrUnavailable == [tag |-> "Err", status |-> "Unavailable"]

\* An engine error answered with Code::Unknown instead of the error status.
MapResultErrAsUnknown(res) ==
    CASE res = "Ok(true)" -> OkResponse("OverLimit")
      [] res = "Ok(false)" -> OkResponse("Ok")
      [] res = "Err" -> OkResponse("Unknown")

\* The two branches of "if rate_limited" exchanged.
MapResultSwapped(res) ==
    CASE res = "Ok(true)" -> OkResponse("Ok")
      [] res = "Ok(false)" -> OkResponse("OverLimit")
      [] res = "Err" -> ErrUnavailable

\* The match on is_rate_limited_res and the reply built from it.
MapResult(res) ==
    CASE res = "Ok(true)" -> OkResponse("OverLimit")
      [] res = "Ok(false)" -> OkResponse("Ok")
      [] res = "Err" -> ErrUnavailable

\* ------------------------------------------------------ engine: operations

Applies(limit, ns, vals) ==
    /\ limit.namespace = ns
    /\ \A c \in limit.conditions : c[1] \in DOMAIN vals /\ vals[c[1]] = c[2]
    /\ \A v \in limit.variables : v \in DOMAIN vals

CounterOf(limit, vals) ==
    [limit |-> limit, set_variables |-> [v \in limit.variables |-> vals[v]]]

CountersThatApply(ns, vals) ==
    {CounterOf(l, vals) : l \in {l \in limits : Applies(l, ns, vals)}}

HitsOf(ctr) == IF ctr \in DOMAIN counters THEN counters[ctr] ELSE 0

IsRateLimited(ns, vals, delta) ==
    \E ctr \in CountersThatApply(ns, vals) : HitsOf(ctr) + delta > ctr.limit.max_value

UpdatedCounters(ns, vals, delta) ==
    [ctr \in (DOMAIN counters) \cup CountersThatApply(ns, vals) |->
        IF ctr \in CountersThatApply(ns, vals) THEN HitsOf(ctr) + delta
        ELSE counters[ctr]]

Invocation(c, ns, vals, delta, res) ==
    [call |-> c, namespace |-> ns, values |-> vals, delta |-> delta, res |-> res]

\* check_rate_limited_and_update(namespace, &values, delta) for call c: one
\* atomic step of the engine.  It fails when the storage is unavailable;
\* otherwise it reports whether some applying counter would exceed its limit
\* and, when none would, records delta on every applying counter.
CheckRateLimitedAndUpdate(c, ns, vals, delta) ==
    \/ /\ is_rate_limited_res' = [is_rate_limited_res EXCEPT ![c] = "Err"]
       /\ engine_log' = Append(engine_log, Invocation(c, ns, vals, delta, "Err"))
       /\ UNCHANGED counters
    \/ /\ IsRateLimited(ns, vals, delta)
       /\ is_rate_limited_res' = [is_rate_limited_res EXCEPT ![c] = "Ok(true)"]
       /\ engine_log' = Append(engine_log, Invocation(c, ns, vals, delta, "Ok(true)"))
       /\ UNCHANGED counters
    \/ /\ ~IsRateLimited(ns, vals, delta)
       /\ is_rate_limited_res' = [is_rate_limited_res EXCEPT ![c] = "Ok(false)"]
       /\ engine_log' = Append(engine_log, Invocation(c, ns, vals, delta, "Ok(false)"))
       /\ counters' = UpdatedCounters(ns, vals, delta)

\* The engine's check without the update (is_rate_limited), as a handler
\* calling the wrong engine operation would run it.
IsRateLimitedOnly(c, ns, vals, delta) ==
    /\ \E res \in {"Err", IF IsRateLimited(ns, vals, delta) THEN "Ok(true)" ELSE "Ok(false)"} :
        /\ is_rate_limited_res' = [is_rate_limited_res EXCEPT ![c] = res]
        /\ engine_log' = Append(engine_log, Invocation(c, ns, vals, delta, res))
    /\ UNCHANGED counters

\* ---------------------------------------------------------------- actions

\* No call has arrived, the engine holds no hits, the endpoint is not bound.
InitCalls ==
    /\ counters = [ctr \in {} |-> 0]
    /\ pc = [c \in Calls |-> "idle"]
    /\ req = [c \in Calls |-> NoRequest]
    /\ namespace = [c \in Calls |-> ""]
    /\ values = [c \in Calls |-> EmptyMap]
    /\ hits_addend = [c \in Calls |-> 0]
    /\ is_rate_limited_res = [c \in Calls |-> None]
    /\ result = [c \in Calls |-> NoResult]
    /\ engine_log = <<>>
    /\ server = "init"
    /\ serve_res = None
    /\ binds = 0

Init ==
    /\ limiter \in {"Blocking", "Async"}
    /\ limits \in LimitConfigs
    /\ InitCalls
    /\ u32_hits = <<0, 0>>
    /\ i64_hits = NoI64

\* Server::builder().add_service(svc).serve(address).await binds the address
\* and serves: the endpoint is listening.
ServeBound ==
    /\ server = "init"
    /\ server' = "serving"
    /\ binds' = binds + 1
    /\ UNCHANGED <<serve_res, handling, widening>>

\* A failed bind retried inside run_envoy_rls_server instead of returned.
ServeBindFailedRetried ==
    /\ server = "init"
    /\ binds' = binds + 1
    /\ UNCHANGED <<server, serve_res, handling, widening>>

\* The bind fails (address already in use): serve returns the error and
\* run_envoy_rls_server returns it to its caller.
ServeBindFailed ==
    /\ server = "init"
    /\ server' = "failed"
    /\ binds' = binds + 1
    /\ serve_res' = "Err(transport::Error)"
    /\ UNCHANGED <<handling, widening>>

\* Lines 31-58 with an empty domain: the early return of Unknown.
\* R is the set of requests the call may carry.
ReceiveEmptyDomain(c, R) ==
    /\ server = "serving"
    /\ pc[c] = "idle"
    /\ \E r \in R :
        /\ IsEmpty(r.domain)
        /\ req' = [req EXCEPT ![c] = r]
        /\ namespace' = [namespace EXCEPT ![c] = r.domain]
    /\ result' = [result EXCEPT ![c] = OkResponse("Unknown")]
    /\ pc' = [pc EXCEPT ![c] = "done"]
    /\ UNCHANGED <<limiter, limits, counters, values, hits_addend,
                   is_rate_limited_res, engine_log>>
    /\ UNCHANGED <<endpoint, widening>>

\* Lines 31-58 otherwise: the descriptors are merged into values and the
\* hits_addend is normalised; the call is about to dispatch to the engine.
Receive(c, R) ==
    /\ server = "serving"
    /\ pc[c] = "idle"
    /\ \E r \in R :
        /\ ~IsEmpty(r.domain)
        /\ req' = [req EXCEPT ![c] = r]
        /\ namespace' = [namespace EXCEPT ![c] = r.domain]
        /\ values' = [values EXCEPT ![c] = Aggregate(r.descriptors)]
        /\ hits_addend' = [hits_addend EXCEPT ![c] = NormalizeHits(r.hits_addend)]
    /\ pc' = [pc EXCEPT ![c] = "dispatch"]
    /\ UNCHANGED <<limiter, limits, counters, is_rate_limited_res, result, engine_log>>
    /\ UNCHANGED <<endpoint, widening>>

\* The Blocking arm calling the engine's check without the update.
DispatchBlockingCheckOnly(c) ==
    /\ pc[c] = "dispatch"
    /\ limiter = "Blocking"
    /\ IsRateLimitedOnly(c, namespace[c], values[c], I64From(hits_addend[c]))
    /\ pc' = [pc EXCEPT ![c] = "map"]
    /\ UNCHANGED <<limiter, limits, req, namespace, values, hits_addend, result>>
    /\ UNCHANGED <<endpoint, widening>>

\* Limiter::Blocking(limiter) => limiter.check_rate_limited_and_update(..)
DispatchBlocking(c) ==
    /\ pc[c] = "dispatch"
    /\ limiter = "Blocking"
    /\ CheckRateLimitedAndUpdate(c, namespace[c], values[c], I64From(hits_addend[c]))
    /\ pc' = [pc EXCEPT ![c] = "map"]
    /\ UNCHANGED <<limiter, limits, req, namespace, values, hits_addend, result>>
    /\ UNCHANGED <<endpoint, widening>>

\* Limiter::Async(limiter) => limiter.check_rate_limited_and_update(..).await:
\* the call suspends on the engine's future.
DispatchAsync(c) ==
    /\ pc[c] = "dispatch"
    /\ limiter = "Async"
    /\ pc' = [pc EXCEPT ![c] = "awaiting"]
    /\ UNCHANGED <<limiter, limits, counters, req, namespace, values, hits_addend,
                   is_rate_limited_res, result, engine_log>>
    /\ UNCHANGED <<endpoint, widening>>

\* The Async arm awaiting the engine's check without the update.
AsyncCompleteCheckOnly(c) ==
    /\ pc[c] = "awaiting"
    /\ IsRateLimitedOnly(c, namespace[c], values[c], I64From(hits_addend[c]))
    /\ pc' = [pc EXCEPT ![c] = "map"]
    /\ UNCHANGED <<limiter, limits, req, namespace, values, hits_addend, result>>
    /\ UNCHANGED <<endpoint, widening>>

\* The Async arm passing the hits_addend field of the request, not the
\* normalised local, unlike the Blocking arm.
AsyncCompleteRawHits(c) ==
    /\ pc[c] = "awaiting"
    /\ CheckRateLimitedAndUpdate(c, namespace[c], values[c], I64From(req[c].hits_addend))
    /\ pc' = [pc EXCEPT ![c] = "map"]
    /\ UNCHANGED <<limiter, limits, req, namespace, values, hits_addend, result>>
    /\ UNCHANGED <<endpoint, widening>>

\* The awaited engine operation takes effect and the call resumes.
AsyncComplete(c) ==
    /\ pc[c] = "awaiting"
    /\ CheckRateLimitedAndUpdate(c, namespace[c], values[c], I64From(hits_addend[c]))
    /\ pc' = [pc EXCEPT ![c] = "map"]
    /\ UNCHANGED <<limiter, limits, req, namespace, values, hits_addend, result>>
    /\ UNCHANGED <<endpoint, widening>>

\* An engine error answered by dispatching to the engine once more.
ReplyRetryingOnErr(c) ==
    /\ pc[c] = "map"
    /\ IF is_rate_limited_res[c] = "Err"
       THEN pc' = [pc EXCEPT ![c] = "dispatch"] /\ UNCHANGED result
       ELSE /\ result' = [result EXCEPT ![c] = MapResult(is_rate_limited_res[c])]
            /\ pc' = [pc EXCEPT ![c] = "done"]
    /\ UNCHANGED <<limiter, limits, counters, req, namespace, values, hits_addend,
                   is_rate_limited_res, engine_log>>
    /\ UNCHANGED <<endpoint, widening>>

\* Lines 71-101: the engine's result becomes the reply or the error.
Reply(c) ==
    /\ pc[c] = "map"
    /\ result' = [result EXCEPT ![c] = MapResult(is_rate_limited_res[c])]
    /\ pc' = [pc EXCEPT ![c] = "done"]
    /\ UNCHANGED <<limiter, limits, counters, req, namespace, values, hits_addend,
                   is_rate_limited_res, engine_log>>
    /\ UNCHANGED <<endpoint, widening>>

Next ==
    \/ ServeBound
    \/ ServeBindFailed
    \/ \E c \in Calls : ReceiveEmptyDomain(c, Requests)
    \/ \E c \in Calls : Receive(c, Requests)
    \/ \E c \in Calls : DispatchBlocking(c)
    \/ \E c \in Calls : DispatchAsync(c)
    \/ \E c \in Calls : AsyncComplete(c)
    \/ \E c \in Calls : Reply(c)

Spec == Init /\ [][Next]_vars

\* The steps of a call after its request was taken.
HandlerStep(c) ==
    DispatchBlocking(c) \/ DispatchAsync(c) \/ AsyncComplete(c) \/ Reply(c)

\* ------------------------------------------ the hit count, bit for bit

\* Lines 54-66 on the 32-bit field: the field is normalised, widened by
\* i64::from and passed to the engine.
PassHits ==
    /\ i64_hits = NoI64
    /\ i64_hits' = I64FromU32(NormalizeHitsU32(u32_hits))
    /\ UNCHANGED <<u32_hits, handling, endpoint>>

InitHits ==
    /\ limiter = "Blocking"
    /\ limits = {}
    /\ InitCalls
    /\ u32_hits \in U32Samples
    /\ i64_hits = NoI64

SpecHits == InitHits /\ [][PassHits]_vars

\* ------------------------------------------- calls sharing one worker thread

\* The worker thread is not inside a synchronous engine call.
WorkerFree == \A c \in Calls : pc[c] # "blocking"

\* Limiter::Blocking(limiter) => limiter.check_rate_limited_and_update(..),
\* called in the body of the async fn: the worker thread that polls the call
\* enters the synchronous engine call and stays in it until it returns.
BlockingEnter(c) ==
    /\ pc[c] = "dispatch"
    /\ limiter = "Blocking"
    /\ pc' = [pc EXCEPT ![c] = "blocking"]
    /\ UNCHANGED <<limiter, limits, counters, req, namespace, values, hits_addend,
                   is_rate_limited_res, result, engine_log>>
    /\ UNCHANGED <<endpoint, widening>>

\* The synchronous engine call returns to the worker thread.
BlockingReturn(c) ==
    /\ pc[c] = "blocking"
    /\ CheckRateLimitedAndUpdate(c, namespace[c], values[c], I64From(hits_addend[c]))
    /\ pc' = [pc EXCEPT ![c] = "map"]
    /\ UNCHANGED <<limiter, limits, req, namespace, values, hits_addend, result>>
    /\ UNCHANGED <<endpoint, widening>>

\* What the worker thread can do for call c when it is free to poll it.
WorkerStep(c) ==
    /\ WorkerFree
    /\ BlockingEnter(c) \/ DispatchAsync(c) \/ AsyncComplete(c) \/ Reply(c)

\* All calls are tasks of one worker thread of the runtime: the thread polls
\* one call at a time and polls nothing while it is inside a synchronous
\* engine call.
NextWorker ==
    \/ ServeBound
    \/ ServeBindFailed
    \/ WorkerFree /\ \E c \in Calls : ReceiveEmptyDomain(c, Requests)
    \/ WorkerFree /\ \E c \in Calls : Receive(c, Requests)
    \/ WorkerFree /\ \E c \in Calls : BlockingEnter(c)
    \/ \E c \in Calls : BlockingReturn(c)
    \/ WorkerFree /\ \E c \in Calls : DispatchAsync(c)
    \/ WorkerFree /\ \E c \in Calls : AsyncComplete(c)
    \/ WorkerFree /\ \E c \in Calls : Reply(c)

SpecWorker == Init /\ [][NextWorker]_vars

\* The concurrent calls with one hit each, for the properties of progress.
NextLive ==
    \/ ServeBound
    \/ ServeBindFailed
    \/ \E c \in Calls : ReceiveEmptyDomain(c, LiveRequests)
    \/ \E c \in Calls : Receive(c, LiveRequests)
    \/ \E c \in Calls : DispatchBlocking(c)
    \/ \E c \in Calls : DispatchAsync(c)
    \/ \E c \in Calls : AsyncComplete(c)
    \/ \E c \in Calls : Reply(c)

\* The runtime keeps polling a call that can continue, and the engine
\* invocation of a call returns.
FairSpec == Init /\ [][NextLive]_vars /\ \A c \in Calls : WF_vars(HandlerStep(c))

\* One call at a time, with every request the bounds allow.
NextWide ==
    \/ ServeBound
    \/ ServeBindFailed
    \/ ReceiveEmptyDomain(1, WideRequests)
    \/ Receive(1, WideRequests)
    \/ DispatchBlocking(1)
    \/ DispatchAsync(1)
    \/ AsyncComplete(1)
    \/ Reply(1)

SpecWide == Init /\ [][NextWide]_vars

TypeOK ==
    /\ limiter \in {"Blocking", "Async"}
    /\ limits \in LimitConfigs
    /\ \A c \in Calls : pc[c] \in {"idle", "dispatch", "awaiting", "blocking", "map", "done"}
    /\ \A c \in Calls : result[c].tag \in {"None", "Ok", "Err"}
    /\ \A c \in Calls : (result[c].tag = "None") <=> (pc[c] # "done")

\* ---------------------------------------------------------------- claims

Done(c) == pc[c] = "done"

\* The call returned Ok(Response) with this overall_code.
Returned(c, code) ==
    /\ result[c].tag = "Ok"
    /\ result[c].response.overall_code = CodeInto(code)

\* The call returned Err(Status::unavailable).
ReturnedUnavailable(c) ==
    /\ result[c].tag = "Err"
    /\ result[c].status = "Unavailable"

\* The positions of the engine invocations made for call c.
InvocationsOf(c) == {i \in DOMAIN engine_log : engine_log[i].call = c}

RecordedHits == [ctr \in DOMAIN counters |-> counters[ctr]]

C1Returned ==
    \A c \in Calls :
        (Done(c) /\ req[c].domain = "") =>
            /\ Returned(c, "Unknown")
            /\ InvocationsOf(c) = {}

C1Step ==
    \A c \in Calls :
        (pc[c] = "idle" /\ pc'[c] # "idle" /\ req'[c].domain = "") =>
            /\ pc'[c] = "done"
            /\ counters' = counters
            /\ engine_log' = engine_log

\* C1: a request whose domain is the empty string returns a successful
\* response with overall_code Unknown, whatever its descriptors and
\* hits_addend and whichever variant of Limiter is active, and the engine's
\* check_rate_limited_and_update is not invoked for it: the step that takes
\* the request completes the call and leaves the recorded hits as they were.
C1_EmptyDomainUnknown == []C1Returned /\ [][C1Step]_vars

\* An empty-domain call with descriptors and hits_addend 2 has returned
\* Unknown while the engine holds hits recorded by another call.
C1_Witness ==
    \E c \in Calls :
        /\ Done(c)
        /\ req[c].domain = ""
        /\ req[c].descriptors = SplitDescriptors
        /\ req[c].hits_addend = 2
        /\ Returned(c, "Unknown")
        /\ \E ctr \in DOMAIN counters : counters[ctr] > 0

\* C2: when the engine invocation of a call fails (storage unavailable), the
\* call returns the transport-level unavailable error and no response, so
\* neither Unknown nor Ok nor OverLimit, under Limiter::Blocking and under
\* Limiter::Async.
C2_EngineFailureUnavailable ==
    \A c \in Calls :
        (Done(c) /\ \E i \in InvocationsOf(c) : engine_log[i].res = "Err") =>
            /\ ReturnedUnavailable(c)
            /\ result[c].tag # "Ok"
            /\ \A code \in {"Unknown", "Ok", "OverLimit"} : ~Returned(c, code)

\* Under Limiter::Async a call whose engine invocation failed has returned
\* the unavailable error.
C2_Witness ==
    \E c \in Calls :
        /\ limiter = "Async"
        /\ Done(c)
        /\ \E i \in InvocationsOf(c) : engine_log[i].res = "Err"
        /\ ReturnedUnavailable(c)

\* C3: for a call with a non-empty domain whose engine invocation succeeded,
\* the response code is Ok exactly when the engine reported "not limited" and
\* OverLimit exactly when it reported "limited", and it is one of the two.
C3_VerdictMapping ==
    \A c \in Calls :
        \A i \in InvocationsOf(c) :
            (Done(c) /\ req[c].domain # "" /\ engine_log[i].res # "Err") =>
                /\ result[c].tag = "Ok"
                /\ Returned(c, "Ok") <=> (engine_log[i].res = "Ok(false)")
                /\ Returned(c, "OverLimit") <=> (engine_log[i].res = "Ok(true)")
                /\ Returned(c, "Ok") \/ Returned(c, "OverLimit")
                /\ ~Returned(c, "Unknown")

\* One call was allowed by the engine and returned Ok, another was limited
\* and returned OverLimit.
C3_Witness ==
    \E c, d \in Calls :
        /\ Done(c) /\ Done(d)
        /\ \E i \in InvocationsOf(c) : engine_log[i].res = "Ok(false)"
        /\ \E i \in InvocationsOf(d) : engine_log[i].res = "Ok(true)"
        /\ Returned(c, "Ok")
        /\ Returned(d, "OverLimit")

\* The entries of a request, over all its descriptors.
RequestEntries(r) ==
    {r.descriptors[i].entries[j] :
        <<i, j>> \in {<<i, j>> \in (DOMAIN r.descriptors) \X (1..MaxEntries) :
                        j \in DOMAIN r.descriptors[i].entries}}

\* The limit is in the request's domain, each of its conditions is met by an
\* entry of the request and each of its variables is the key of one.
Matches(l, r) ==
    /\ l.namespace = r.domain
    /\ \A cd \in l.conditions : Entry(cd[1], cd[2]) \in RequestEntries(r)
    /\ \A v \in l.variables : \E e \in RequestEntries(r) : e.key = v

\* c and d carried the same request, made the first and the second engine
\* invocation of the behaviour, both invocations succeeded and both calls
\* have returned.
Successive(c, d) ==
    /\ c # d
    /\ req[c] = req[d]
    /\ Done(c) /\ Done(d)
    /\ Len(engine_log) >= 2
    /\ engine_log[1].call = c /\ engine_log[1].res # "Err"
    /\ engine_log[2].call = d /\ engine_log[2].res # "Err"

\* The hits the engine holds for the limit l.
HitsOfLimit(l) == {counters[ctr] : ctr \in {k \in DOMAIN counters : k.limit = l}}

\* C4: with a single limit of max 1 that matches the request, two successive
\* identical requests with hits_addend 1 return Ok for the first call and
\* OverLimit for the second; after the first invocation alone the engine
\* holds one hit for the limit.
C4_OkThenOverLimit ==
    \A l \in limits :
        (limits = {l} /\ l.max_value = 1) =>
            /\ \A c, d \in Calls :
                (Successive(c, d) /\ req[c].hits_addend = 1 /\ Matches(l, req[c])) =>
                    (Returned(c, "Ok") /\ Returned(d, "OverLimit"))
            /\ ( /\ Len(engine_log) = 1
                 /\ engine_log[1].res # "Err"
                 /\ req[engine_log[1].call].hits_addend = 1
                 /\ Matches(l, req[engine_log[1].call]) ) => HitsOfLimit(l) = {1}

\* Under Limiter::Blocking, two calls with the request of
\* test_returns_ok_and_overlimit_correctly's shape against a limit of max 1:
\* the first returned Ok, the second OverLimit.
C4_Witness ==
    \E c, d \in Calls :
        /\ limiter = "Blocking"
        /\ limits = {SingleLimit(1)}
        /\ Successive(c, d)
        /\ req[c] = RateLimitRequest(TestNamespace, FirstDescriptorOnly, 1)
        /\ Returned(c, "Ok")
        /\ Returned(d, "OverLimit")

\* C5: a request with hits_addend 0 is passed to the engine exactly as the
\* same request with hits_addend 1 would be, with a hit count of 1 (so the
\* engine, which sees only the domain, the context and the count, answers and
\* records the same for both); with a matching limit of max 1, a request with
\* hits_addend 0 followed by the same request returns Ok then OverLimit.
C5_ZeroHitsAddendIsOne ==
    /\ \A i \in DOMAIN engine_log :
        req[engine_log[i].call].hits_addend = 0 =>
            /\ engine_log[i].delta = 1
            /\ engine_log[i].delta = I64From(NormalizeHits(1))
            /\ engine_log[i].namespace = req[engine_log[i].call].domain
            /\ engine_log[i].values = Aggregate(req[engine_log[i].call].descriptors)
    /\ \A l \in limits :
        (limits = {l} /\ l.max_value = 1) =>
            \A c, d \in Calls :
                (Successive(c, d) /\ req[c].hits_addend = 0 /\ Matches(l, req[c])) =>
                    (Returned(c, "Ok") /\ Returned(d, "OverLimit"))

\* Two calls with hits_addend 0 against a matching limit of max 1: Ok, then
\* OverLimit, with one hit recorded.
C5_Witness ==
    \E c, d \in Calls :
        /\ limits = {SingleLimit(1)}
        /\ Successive(c, d)
        /\ req[c].hits_addend = 0
        /\ Matches(SingleLimit(1), req[c])
        /\ Returned(c, "Ok")
        /\ Returned(d, "OverLimit")
        /\ HitsOfLimit(SingleLimit(1)) = {1}

\* C6: a non-zero hits_addend h reaches the engine unchanged and h hits are
\* recorded; with a single matching limit of max M and h <= M < 2h, two
\* successive identical requests return Ok then OverLimit.
C6_HitsAddendApplied ==
    /\ \A i \in DOMAIN engine_log :
        req[engine_log[i].call].hits_addend # 0 =>
            engine_log[i].delta = req[engine_log[i].call].hits_addend
    /\ \A l \in limits :
        limits = {l} =>
            /\ \A c, d \in Calls :
                ( /\ Successive(c, d)
                  /\ Matches(l, req[c])
                  /\ req[c].hits_addend # 0
                  /\ req[c].hits_addend <= l.max_value
                  /\ l.max_value < 2 * req[c].hits_addend ) =>
                    (Returned(c, "Ok") /\ Returned(d, "OverLimit"))
            /\ ( /\ Len(engine_log) = 1
                 /\ engine_log[1].res = "Ok(false)"
                 /\ req[engine_log[1].call].hits_addend # 0
                 /\ Matches(l, req[engine_log[1].call]) ) =>
                    HitsOfLimit(l) = {req[engine_log[1].call].hits_addend}

\* Two calls with hits_addend 2 against a matching limit of max 2: Ok, then
\* OverLimit, with two hits recorded.
C6_Witness ==
    \E c, d \in Calls :
        /\ limits = {SingleLimit(2)}
        /\ Successive(c, d)
        /\ req[c].hits_addend = 2
        /\ Matches(SingleLimit(2), req[c])
        /\ Returned(c, "Ok")
        /\ Returned(d, "OverLimit")
        /\ HitsOfLimit(SingleLimit(2)) = {2}

\* The keys of the entries of a request.
RequestKeys(r) == {e.key : e \in RequestEntries(r)}

\* The engine invocation of call c succeeded.
EngineAnswered(c) ==
    /\ InvocationsOf(c) # {}
    /\ \A i \in InvocationsOf(c) : engine_log[i].res # "Err"

\* C7: the context passed to the engine holds the entries of all descriptors
\* of the request: every key of any descriptor is in it, so a limit whose
\* conditions are met only by attributes of different descriptors applies.
\* With the limits of test_takes_into_account_all_the_descriptors (max 10 on
\* x = 1, max 0 on x = 1 and y = 2) a request carrying x = 1 in one descriptor
\* and y = 2 in another returns OverLimit whenever the engine answers.
C7_AllDescriptorsMerged ==
    /\ \A i \in DOMAIN engine_log :
        DOMAIN engine_log[i].values = RequestKeys(req[engine_log[i].call])
    /\ \A c \in Calls :
        ( /\ limits = {PermissiveLimit, CombinedLimit}
          /\ Done(c)
          /\ EngineAnswered(c)
          /\ Matches(CombinedLimit, req[c])
          /\ \A k \in DOMAIN req[c].descriptors :
                ~Matches(CombinedLimit,
                         [req[c] EXCEPT !.descriptors = <<req[c].descriptors[k]>>]) ) =>
            Returned(c, "OverLimit")

\* The request of the test (x and z in the first descriptor, y in the second)
\* returned OverLimit although no hit is recorded, while the first descriptor
\* alone, in another call, was allowed by the limit of max 10 and returned Ok.
C7_Witness ==
    \E c, d \in Calls :
        /\ limits = {PermissiveLimit, CombinedLimit}
        /\ Done(c) /\ Done(d)
        /\ req[c] = RateLimitRequest(TestNamespace, SplitDescriptors, 1)
        /\ req[d] = RateLimitRequest(TestNamespace, FirstDescriptorOnly, 1)
        /\ engine_log[1].call = c
        /\ Returned(c, "OverLimit")
        /\ Returned(d, "Ok")

RECURSIVE Flatten(_)
\* The entries of a descriptor list in iteration order.
Flatten(ds) == IF ds = <<>> THEN <<>> ELSE Head(ds).entries \o Flatten(Tail(ds))

\* The position of the last entry with key k.
LastIndexOf(es, k) ==
    CHOOSE i \in DOMAIN es : es[i].key = k /\ \A j \in DOMAIN es : j > i => es[j].key # k

\* The map is the last-entry-wins merge of the descriptor list.
IsLastWinsMerge(m, ds) ==
    /\ DOMAIN m = {Flatten(ds)[i].key : i \in DOMAIN Flatten(ds)}
    /\ \A k \in DOMAIN m : m[k] = Flatten(ds)[LastIndexOf(Flatten(ds), k)].value

\* C8: the context built for a request, and passed to the engine, binds each
\* key that occurs in any entry of any descriptor, and no other key, to the
\* value of the last entry with that key in iteration order (descriptors in
\* request order, entries in descriptor order).
C8_LastEntryWins ==
    /\ \A c \in Calls :
        (pc[c] # "idle" /\ req[c].domain # "") =>
            IsLastWinsMerge(values[c], req[c].descriptors)
    /\ \A i \in DOMAIN engine_log :
        IsLastWinsMerge(engine_log[i].values, req[engine_log[i].call].descriptors)

\* The engine was invoked for a request that has x in one descriptor and
\* twice, with different values, in a later one: the context has the last.
C8_Witness ==
    /\ Len(engine_log) = 1
    /\ req[1].descriptors =
        <<RateLimitDescriptor(<<Entry("x", "1")>>),
          RateLimitDescriptor(<<Entry("x", "1"), Entry("x", "2")>>)>>
    /\ engine_log[1].values = [k \in {"x"} |-> "2"]

\* The calls that returned a response with this code.
CallsReturned(code) == {c \in Calls : Returned(c, code)}

C10_NoLimitsOk ==
    \A c \in Calls :
        ( /\ Done(c)
          /\ req[c].domain # ""
          /\ \A l \in limits : l.namespace # req[c].domain ) =>
            /\ EngineAnswered(c) => Returned(c, "Ok")
            /\ ~Returned(c, "OverLimit")
            /\ ~Returned(c, "Unknown")

\* Limits exist in another domain only; every call, with hits_addend 2 and
\* the attributes those limits would match, has returned Ok.
C10_Witness ==
    /\ limits = {Limit(OtherNamespace, 0, {}, {})}
    /\ \A c \in Calls :
        /\ Done(c)
        /\ req[c] = RateLimitRequest(TestNamespace, SplitDescriptors, 2)
        /\ Returned(c, "Ok")

\* C11: Unknown is returned only for a request whose domain is the empty
\* string: a call that returned Unknown carried an empty domain and made no
\* engine invocation, and no call that invoked the engine, whatever the
\* engine answered (allowed, limited or failure), returned Unknown.
C11_UnknownOnlyForEmptyDomain ==
    \A c \in Calls :
        /\ Returned(c, "Unknown") => (req[c].domain = "" /\ InvocationsOf(c) = {})
        /\ (Done(c) /\ InvocationsOf(c) # {}) => ~Returned(c, "Unknown")

\* One call with an empty domain returned Unknown; another, whose engine
\* invocation failed, has returned and not with Unknown.
C11_Witness ==
    \E c, d \in Calls :
        /\ Returned(c, "Unknown")
        /\ req[c].domain = ""
        /\ Done(d)
        /\ \E i \in InvocationsOf(d) : engine_log[i].res = "Err"
        /\ ReturnedUnavailable(d)

C13Failed ==
    /\ binds <= 1
    /\ (serve_res # None) <=> (server = "failed")
    /\ server = "failed" =>
        /\ serve_res = "Err(transport::Error)"
        /\ binds = 1
        /\ \A c \in Calls : pc[c] = "idle"
        /\ engine_log = <<>>

C13Step ==
    server = "failed" =>
        /\ server' = "failed"
        /\ serve_res' = serve_res
        /\ binds' = binds
        /\ pc' = pc
        /\ engine_log' = engine_log

\* C13: a failed bind of the server endpoint is fatal to startup:
\* run_envoy_rls_server returns the error to its caller after a single bind
\* attempt, never binds again, and no request is handled after the failure.
C13_BindFailureFatal == []C13Failed /\ [][C13Step]_vars

\* The bind has failed and the error has been returned.
C13_Witness ==
    /\ server = "failed"
    /\ binds = 1
    /\ serve_res = "Err(transport::Error)"

\* A successful response: one of the three codes and nothing else in it.
IsResponse(x) ==
    /\ x.tag = "Ok"
    /\ x.response.overall_code \in {0, 1, 2}
    /\ x.response.statuses = <<>>
    /\ x.response.request_headers_to_add = <<>>
    /\ x.response.response_headers_to_add = <<>>

IsUnavailable(x) == x.tag = "Err" /\ x.status = "Unavailable"

C12Outcome ==
    \A c \in Calls :
        /\ Done(c) => ( /\ IsResponse(result[c]) \/ IsUnavailable(result[c])
                        /\ ~(IsResponse(result[c]) /\ IsUnavailable(result[c])) )
        /\ ~Done(c) => result[c] = NoResult

\* C12: every call ends in exactly one of two outcomes, a successful response
\* whose overall_code is Unknown, Ok or OverLimit and whose statuses,
\* request_headers_to_add and response_headers_to_add are empty, or the
\* transport-level unavailable error, never both and nothing before it ends;
\* and, the engine invocation returning, every call that was taken
\* eventually ends.
C12_OneOutcomeEventually ==
    /\ []C12Outcome
    /\ \A c \in Calls : (pc[c] # "idle") ~> Done(c)

\* One call has ended with a response and another with the error.
C12_Witness ==
    \E c, d \in Calls :
        /\ Done(c) /\ Done(d)
        /\ IsResponse(result[c])
        /\ IsUnavailable(result[d])

\* The calls whose engine invocation has been made: they carried a non-empty
\* domain and are past the dispatch.
CallsPastDispatch == {c \in Calls : pc[c] \in {"map", "done"} /\ req[c].domain # ""}

\* C14: a call with a non-empty domain makes exactly one engine invocation,
\* whether it succeeds or fails: none before its dispatch, one from then on,
\* never a second one; a call with an empty domain makes none.  The number
\* of engine invocations is the number of calls with a non-empty domain that
\* are past their dispatch, so once all calls have returned it is the number
\* of calls with a non-empty domain.
C14_OneInvocationPerCall ==
    /\ \A c \in Calls :
        Cardinality(InvocationsOf(c)) = IF c \in CallsPastDispatch THEN 1 ELSE 0
    /\ Len(engine_log) = Cardinality(CallsPastDispatch)
    /\ (\A c \in Calls : Done(c)) =>
        Len(engine_log) = Cardinality({c \in Calls : req[c].domain # ""})

\* All calls have returned, one of them after a failed engine invocation and
\* another after a limited one: one invocation each.
C14_Witness ==
    /\ \A c \in Calls : Done(c) /\ req[c].domain # ""
    /\ Len(engine_log) = NumCalls
    /\ \E i \in DOMAIN engine_log : engine_log[i].res = "Err"
    /\ \E i \in DOMAIN engine_log : engine_log[i].res = "Ok(true)"

\* The position of each call with the suspension on the engine's future
\* hidden: what a caller and the engine can tell apart.
ViewPc == [c \in Calls |-> IF pc[c] = "awaiting" THEN "dispatch" ELSE pc[c]]

\* Everything but the variant of Limiter and the hidden suspension.
observed ==
    <<ViewPc, limits, counters, req, namespace, values, hits_addend,
      is_rate_limited_res, result, engine_log, endpoint>>

\* The dispatch of a handler that knows no execution mode: one engine
\* invocation with the call's namespace, values and hit count.
ViewDispatch(c) ==
    /\ ViewPc[c] = "dispatch"
    /\ CheckRateLimitedAndUpdate(c, namespace[c], values[c], I64From(hits_addend[c]))
    /\ ViewPc' = [ViewPc EXCEPT ![c] = "map"]
    /\ UNCHANGED <<limits, req, namespace, values, hits_addend, result, endpoint>>

\* Every step, under either variant, is a step of the mode-free handler or
\* changes nothing that can be observed.
C15Step ==
    \/ UNCHANGED observed
    \/ ServeBound
    \/ ServeBindFailed
    \/ \E c \in Calls : ReceiveEmptyDomain(c, Requests)
    \/ \E c \in Calls : Receive(c, Requests)
    \/ \E c \in Calls : ViewDispatch(c)
    \/ \E c \in Calls : Reply(c)

\* The answers the engine can give to the dispatch of call c.
EngineAnswers(c) ==
    {"Err", IF IsRateLimited(namespace[c], values[c], I64From(hits_addend[c]))
            THEN "Ok(true)" ELSE "Ok(false)"}

\* Under either variant a call at its dispatch can go on, and each answer the
\* engine can give can be the one it gets.
C15Enabled ==
    \A c \in Calls :
        /\ pc[c] = "dispatch" => ENABLED (DispatchBlocking(c) \/ DispatchAsync(c))
        /\ pc[c] = "awaiting" => limiter = "Async"
        /\ (pc[c] = "awaiting" \/ (pc[c] = "dispatch" /\ limiter = "Blocking")) =>
            \A res \in EngineAnswers(c) :
                ENABLED ( /\ DispatchBlocking(c) \/ AsyncComplete(c)
                          /\ is_rate_limited_res'[c] = res )

\* What reaches the engine and what is returned are functions of the request
\* and of the engine's answer alone.
C15SameArguments ==
    /\ \A i \in DOMAIN engine_log :
        /\ engine_log[i].namespace = req[engine_log[i].call].domain
        /\ engine_log[i].values = Aggregate(req[engine_log[i].call].descriptors)
        /\ engine_log[i].delta =
               I64From(NormalizeHits(req[engine_log[i].call].hits_addend))
    /\ \A c \in Calls : \A i \in InvocationsOf(c) :
        Done(c) => result[c] = MapResult(engine_log[i].res)

\* C15: the handler's observable behaviour does not depend on the variant of
\* Limiter.  With the suspension of the Async arm hidden, the handler on
\* Limiter::Blocking and the handler on Limiter::Async are the same machine:
\* every step of either is a step of one mode-free handler that passes the
\* same (domain, context, hits) to the engine and maps the answer the same
\* way, and every step of the mode-free handler can be taken by either.
C15_ModeOblivious == [][C15Step]_vars /\ []C15Enabled /\ []C15SameArguments

\* Under Limiter::Async a call with hits_addend 0 was suspended, got the
\* engine's "limited" for a hit count of 1 and returned OverLimit.
C15_Witness ==
    \E c \in Calls :
        /\ limiter = "Async"
        /\ Done(c)
        /\ req[c].hits_addend = 0
        /\ \E i \in InvocationsOf(c) :
            engine_log[i].delta = 1 /\ engine_log[i].res = "Ok(true)"
        /\ Returned(c, "OverLimit")

\* C16: under Limiter::Blocking the engine call is kept off the worker that
\* polls the calls, so that a synchronous engine call in progress never keeps
\* another call of the same worker from taking its next step; only the Async
\* arm suspends.
C16_NoHeadOfLineBlocking ==
    \A c \in Calls :
        /\ pc[c] = "awaiting" => limiter = "Async"
        /\ pc[c] = "blocking" =>
            \A d \in Calls \ {c} :
                pc[d] \in {"dispatch", "map"} => ENABLED WorkerStep(d)

\* C17: the hit count passed to the engine is a 64-bit signed value in
\* 1 .. 2^32 - 1: its sign bit is clear, its upper 32 bits are zero and it is
\* not 0; it is 1 for a hits_addend of 0 and otherwise has the 32 bits of the
\* hits_addend, the maximum 2^32 - 1 included, so the widening loses nothing.
C17_HitsInRange ==
    i64_hits # NoI64 =>
        /\ \A k \in 1..4 : i64_hits[k] \in Limbs
        /\ i64_hits[1] < SignLimb
        /\ i64_hits[1] = 0 /\ i64_hits[2] = 0
        /\ <<i64_hits[3], i64_hits[4]>> # <<0, 0>>
        /\ <<i64_hits[3], i64_hits[4]>> = IF u32_hits = <<0, 0>> THEN <<0, 1>> ELSE u32_hits

\* The maximum hits_addend, 2^32 - 1, has been passed to the engine as the
\* positive 64-bit value 2^32 - 1.
C17_Witness ==
    /\ u32_hits = <<LimbBase - 1, LimbBase - 1>>
    /\ i64_hits = <<0, 0, LimbBase - 1, LimbBase - 1>>

====
